---- MODULE Spec2Model ----
(***************************************************************************)
(* A model of the resume store of personal-RAG-chatbot:                    *)
(*   src/resume_manager.py  ConversationMemory, ResumeManager              *)
(*   src/resume_processor.py ResumeProcessor: extract_text,               *)
(*       validate_is_resume, generate_metadata, process_resume             *)
(*   src/app.py  the "Process Files" handler of the upload panel           *)
(* Python strings are TLA+ strings; a dict that is iterated in insertion   *)
(* order is a sequence of records; one action is one whole method call.    *)
(***************************************************************************)
EXTENDS Integers, Sequences, FiniteSets, TLC

VARIABLES
    resumes,          \* ResumeManager.resumes, in insertion order
    all_chunks,       \* ResumeManager.all_chunks
    chunk_to_resume,  \* ResumeManager.chunk_to_resume
    index,            \* ResumeManager.index (None or the faiss index)
    messages,         \* ConversationMemory.messages
    max_messages,     \* ConversationMemory.max_messages
    added,            \* history: the turns passed to add_message since the last clear
    op,               \* the method that ran last
    arg,              \* its arguments
    ret,              \* what it returned
    raised,           \* TRUE when it raised instead of returning
    calls,            \* the external calls it made
    rebuilds,         \* history: _rebuild_index calls that returned in a row, up to 2
    trace             \* what it did inside: the retrieval path, the context built, the
                      \* messages handed to the completion call and what that call did

vars == <<resumes, all_chunks, chunk_to_resume, index, messages, max_messages, added,
          op, arg, ret, raised, calls, rebuilds, trace>>

store == <<resumes, all_chunks, chunk_to_resume, index>>

conv == <<messages, added>>

(***************************************************************************)
(* Bounds of the model.                                                    *)
(***************************************************************************)
MaxResumes == 2      \* documents held at once
MaxK == 3            \* largest k passed to a search
MaxHistory == 2      \* turns the manager's memory holds before queries stop
MaxBound == 3        \* largest max_messages a ConversationMemory is built with
MaxTurns == 4        \* turns added to a ConversationMemory under test
MaxTextLen == 5      \* longest text handed to the chunker under test
MaxChunkSize == 3    \* largest chunk_size handed to the chunker under test
MaxUploads == 3      \* documents held at once when the ids are under test
MaxBatch == 2        \* files selected for one click on "Process Files"
MaxBatchDocs == 3    \* documents held at once when the upload panel is under test
MaxConvTurns == 22   \* turns of one conversation before successful queries stop

(***************************************************************************)
(* Program constants.                                                      *)
(***************************************************************************)
DefaultMaxMessages == 20
DefaultChunkSize == 500
DefaultOverlap == 50
QueryK == 6               \* the k query passes to both searches
MemoryWindow == 8         \* the turns of history query hands to the completion call

Min(a, b) == IF a < b THEN a ELSE b

(***************************************************************************)
(* Python str operations.                                                  *)
(***************************************************************************)
Whitespace == {" ", "\n", "\t"}

CharAt(s, i) == SubSeq(s, i, i)

\* s[i:] for a 0-based i
Tail0(s, i) == SubSeq(s, i + 1, Len(s))

RECURSIVE lstrip(_)
lstrip(s) ==
    IF s # "" /\ CharAt(s, 1) \in Whitespace THEN lstrip(Tail0(s, 1)) ELSE s

RECURSIVE rstrip(_)
rstrip(s) ==
    IF s # "" /\ CharAt(s, Len(s)) \in Whitespace
    THEN rstrip(SubSeq(s, 1, Len(s) - 1))
    ELSE s

strip(s) == rstrip(lstrip(s))

StartsWith(s, p) == Len(p) <= Len(s) /\ SubSeq(s, 1, Len(p)) = p

EndsWith(s, p) == Len(p) <= Len(s) /\ SubSeq(s, Len(s) - Len(p) + 1, Len(s)) = p

\* sub in s
Contains(s, sub) == \E i \in 1..(Len(s) - Len(sub) + 1) : SubSeq(s, i, i + Len(sub) - 1) = sub

\* s.split(sep): the pieces between the non-overlapping occurrences of sep, left to right
RECURSIVE SplitFrom(_, _, _)
SplitFrom(s, sep, acc) ==
    IF s = "" THEN <<acc>>
    ELSE IF StartsWith(s, sep) THEN <<acc>> \o SplitFrom(Tail0(s, Len(sep)), sep, "")
    ELSE SplitFrom(Tail0(s, 1), sep, acc \o CharAt(s, 1))

split(s, sep) == SplitFrom(s, sep, "")

\* s.replace(from, to) for a one-character from
RECURSIVE replace(_, _, _)
replace(s, from, to) ==
    IF s = "" THEN ""
    ELSE (IF CharAt(s, 1) = from THEN to ELSE CharAt(s, 1)) \o replace(Tail0(s, 1), from, to)

Upper == <<"A", "B", "C", "D", "E", "F", "G", "H", "I", "J", "K", "L", "M",
           "N", "O", "P", "Q", "R", "S", "T", "U", "V", "W", "X", "Y", "Z">>
Lower == <<"a", "b", "c", "d", "e", "f", "g", "h", "i", "j", "k", "l", "m",
           "n", "o", "p", "q", "r", "s", "t", "u", "v", "w", "x", "y", "z">>

LowerChar(c) ==
    IF \E i \in 1..Len(Upper) : Upper[i] = c
    THEN Lower[CHOOSE i \in 1..Len(Upper) : Upper[i] = c]
    ELSE c

RECURSIVE lower(_)
lower(s) == IF s = "" THEN "" ELSE LowerChar(CharAt(s, 1)) \o lower(Tail0(s, 1))

RECURSIVE Concat(_)
Concat(ss) == IF ss = <<>> THEN <<>> ELSE Head(ss) \o Concat(Tail(ss))

UpperChar(c) ==
    IF \E i \in 1..Len(Lower) : Lower[i] = c
    THEN Upper[CHOOSE i \in 1..Len(Lower) : Lower[i] = c]
    ELSE c

RECURSIVE upper(_)
upper(s) == IF s = "" THEN "" ELSE UpperChar(CharAt(s, 1)) \o upper(Tail0(s, 1))

\* s.split(sep, 1): cut at the first occurrence of sep only
RECURSIVE Split1From(_, _, _)
Split1From(s, sep, acc) ==
    IF s = "" THEN <<acc>>
    ELSE IF StartsWith(s, sep) THEN <<acc, Tail0(s, Len(sep))>>
    ELSE Split1From(Tail0(s, 1), sep, acc \o CharAt(s, 1))

split1(s, sep) == Split1From(s, sep, "")

\* sep.join(parts)
RECURSIVE join(_, _)
join(sep, parts) ==
    IF parts = <<>> THEN ""
    ELSE IF Len(parts) = 1 THEN Head(parts)
    ELSE Head(parts) \o sep \o join(sep, Tail(parts))

Digits == <<"0", "1", "2", "3", "4", "5", "6", "7", "8", "9">>

IsDigit(c) == \E i \in 1..Len(Digits) : Digits[i] = c

\* the digits s starts with
RECURSIVE DigitRun(_)
DigitRun(s) ==
    IF s # "" /\ IsDigit(CharAt(s, 1)) THEN CharAt(s, 1) \o DigitRun(Tail0(s, 1)) ELSE ""

\* re.search(r'(\d+)', s): the leftmost run of digits, "" when there is no match
RECURSIVE SearchDigits(_)
SearchDigits(s) ==
    IF s = "" THEN ""
    ELSE IF IsDigit(CharAt(s, 1)) THEN DigitRun(s)
    ELSE SearchDigits(Tail0(s, 1))

\* int(s) for a non-empty string of digits
RECURSIVE int(_)
int(s) ==
    IF s = "" THEN 0
    ELSE 10 * int(SubSeq(s, 1, Len(s) - 1))
         + (CHOOSE i \in 1..Len(Digits) : Digits[i] = CharAt(s, Len(s))) - 1

\* [p.strip() for p in value.split(',') if p.strip()]
StrippedParts(value) ==
    LET parts == split(value, ",")
        stripped == [i \in 1..Len(parts) |-> strip(parts[i])]
    IN  SelectSeq(stripped, LAMBDA p : p # "")

(***************************************************************************)
(* ConversationMemory                                                      *)
(***************************************************************************)
\* lst[-n:] for n >= 0: -0 is 0, so lst[-0:] is the whole list
LastSlice(lst, n) ==
    IF n = 0 THEN lst
    ELSE SubSeq(lst, Len(lst) - Min(n, Len(lst)) + 1, Len(lst))

Turn(role, content) == [role |-> role, content |-> content]

\* the messages after add_message(role, content)
add_message(msgs, bound, role, content) ==
    LET appended == Append(msgs, Turn(role, content))
    IN  IF Len(appended) > bound THEN LastSlice(appended, bound) ELSE appended

get_context(msgs, last_n) == IF msgs # <<>> THEN LastSlice(msgs, last_n) ELSE <<>>

(***************************************************************************)
(* ResumeManager._chunk_text                                               *)
(***************************************************************************)
Sections(text) ==
    LET parts == split(text, "\n\n")
        stripped == [i \in 1..Len(parts) |-> strip(parts[i])]
    IN  SelectSeq(stripped, LAMBDA s : s # "")

\* mutant: the start moves on by chunk_size, the overlap is not taken off
RECURSIVE Windows_NoOverlap(_, _, _, _)
Windows_NoOverlap(section, start, chunk_size, overlap) ==
    IF start < Len(section)
    THEN <<SubSeq(section, start + 1, Min(start + chunk_size, Len(section)))>>
         \o Windows_NoOverlap(section, start + chunk_size, chunk_size, overlap)
    ELSE <<>>

\* the while loop over one long section, from window start `start` (0-based)
RECURSIVE Windows(_, _, _, _)
Windows(section, start, chunk_size, overlap) ==
    IF start < Len(section)
    THEN <<SubSeq(section, start + 1, Min(start + chunk_size, Len(section)))>>
         \o Windows(section, start + chunk_size - overlap, chunk_size, overlap)
    ELSE <<>>

SectionChunks(section, chunk_size, overlap) ==
    IF Len(section) <= chunk_size THEN <<section>>
    ELSE Windows(section, 0, chunk_size, overlap)

_chunk_text(text, chunk_size, overlap) ==
    LET secs == Sections(text)
    IN  Concat([i \in 1..Len(secs) |-> SectionChunks(secs[i], chunk_size, overlap)])

(***************************************************************************)
(* ResumeProcessor: extract_text, generate_metadata, process_resume        *)
(***************************************************************************)
\* The result of a call that may raise.
Returned(v) == [value |-> v, ok |-> TRUE]
Raised == [value |-> "error", ok |-> FALSE]

\* a call that raised a ValueError with the message `message`
RaisedWith(message) == [value |-> message, ok |-> FALSE]

\* what the str() of a parser's own exception holds: the parsers are handed a
\* BytesIO of the bytes, never the filename
ParserError == "bad bytes"

\* extract_text_from_pdf: pdfplumber first, PyPDF2 second; parse_ok says whether
\* one of the two manages to read the bytes
extract_text_from_pdf(content, parse_ok) ==
    IF parse_ok THEN Returned(content)
    ELSE RaisedWith("failed to extract text from pdf: " \o ParserError \o ", " \o ParserError)

extract_text_from_docx(content, parse_ok) ==
    IF parse_ok THEN Returned(content)
    ELSE RaisedWith("failed to extract text from docx: " \o ParserError)

\* utf-8 first, latin-1 second, and latin-1 decodes every byte string
extract_text_from_txt(content) == Returned(content)

\* extract_text(file_bytes, filename): `content` is the text the bytes hold and
\* parse_ok says whether a pdf/docx parser manages to read them
extract_text(content, filename, parse_ok) ==
    LET filename_lower == lower(filename)
    IN  IF EndsWith(filename_lower, ".pdf") THEN extract_text_from_pdf(content, parse_ok)
        ELSE IF EndsWith(filename_lower, ".docx") THEN extract_text_from_docx(content, parse_ok)
        ELSE IF EndsWith(filename_lower, ".txt") THEN extract_text_from_txt(content)
        ELSE RaisedWith("unsupported file type: " \o filename
                        \o " - supported types are pdf, docx, txt")

\* What a chat.completions.create call can do: raise, answer with a text, or answer
\* with no content (message.content is None).
Fails == [content |-> "boom", kind |-> "raises"]
Answers(text) == [content |-> text, kind |-> "content"]
AnswersNone == [content |-> "", kind |-> "null"]

resume_indicators ==
    {"experience", "education", "skills", "employment", "work history",
     "professional", "resume", "curriculum vitae", "cv", "objective",
     "summary", "qualifications", "references", "certifications"}

indicator_count(text) ==
    Cardinality({indicator \in resume_indicators : Contains(lower(text), indicator)})

HeuristicReason ==
    "document doesnt appear to be a resume - missing typical sections like experience, education, or skills"

\* the loop of validate_is_resume over the lines of the answer, from the pair
\* <<is_resume, reason>> held so far
RECURSIVE ClassifyLines(_, _)
ClassifyLines(verdict, lines) ==
    IF lines = <<>> THEN verdict
    ELSE LET line == Head(lines)
             kv == split1(line, ":")
             key == upper(strip(kv[1]))
             value == strip(kv[2])
         IN  IF ~Contains(line, ":") THEN ClassifyLines(verdict, Tail(lines))
             ELSE IF key = "IS_RESUME"
             THEN ClassifyLines(<<upper(value) = "YES", verdict[2]>>, Tail(lines))
             ELSE IF key = "REASON"
             THEN ClassifyLines(<<verdict[1], value>>, Tail(lines))
             ELSE ClassifyLines(verdict, Tail(lines))

\* mutant: the heuristic rejects only a text without any indicator
validate_is_resume_OneIndicator(text, llm) ==
    IF indicator_count(text) < 1
    THEN [raised |-> FALSE, value |-> <<FALSE, HeuristicReason>>, completion |-> 0]
    ELSE IF llm.kind = "content"
    THEN [raised |-> FALSE,
          value |-> ClassifyLines(<<FALSE, "could not determine document type">>,
                                  split(strip(llm.content), "\n")),
          completion |-> 1]
    ELSE [raised |-> FALSE,
          value |-> IF indicator_count(text) >= 3
                    THEN <<TRUE, "validated by heuristic check">>
                    ELSE <<FALSE, "validation failed: " \o llm.content>>,
          completion |-> 1]

\* mutant: the fallback accepts whatever passed the heuristic
validate_is_resume_LenientFallback(text, llm) ==
    IF indicator_count(text) < 2
    THEN [raised |-> FALSE, value |-> <<FALSE, HeuristicReason>>, completion |-> 0]
    ELSE IF llm.kind = "content"
    THEN [raised |-> FALSE,
          value |-> ClassifyLines(<<FALSE, "could not determine document type">>,
                                  split(strip(llm.content), "\n")),
          completion |-> 1]
    ELSE [raised |-> FALSE,
          value |-> <<TRUE, "validated by heuristic check">>,
          completion |-> 1]

\* validate_is_resume(text), llm being what the classification call does: the pair
\* returned and the number of completion calls made; no path raises
validate_is_resume(text, llm) ==
    IF indicator_count(text) < 2
    THEN [raised |-> FALSE, value |-> <<FALSE, HeuristicReason>>, completion |-> 0]
    ELSE IF llm.kind = "content"
    THEN [raised |-> FALSE,
          value |-> ClassifyLines(<<FALSE, "could not determine document type">>,
                                  split(strip(llm.content), "\n")),
          completion |-> 1]
    ELSE \* the call raised, or .strip() of None raised: the except branch
         [raised |-> FALSE,
          value |-> IF indicator_count(text) >= 3
                    THEN <<TRUE, "validated by heuristic check">>
                    ELSE <<FALSE, "validation failed: "
                                  \o (IF llm.kind = "raises" THEN llm.content
                                      ELSE "'NoneType' object has no attribute 'strip'")>>,
          completion |-> 1]

\* the record _parse_metadata_response starts from
InitialMetadata(filename) ==
    [filename |-> filename,
     candidate_name |-> "unknown", email |-> "not provided", phone |-> "not provided",
     summary |-> "", key_skills |-> <<>>, experience_years |-> 0,
     current_role |-> "unknown", education |-> "unknown", industries |-> <<>>]

\* the body of the loop of _parse_metadata_response for one line
ParseLine(metadata, line) ==
    IF ~Contains(line, ":") THEN metadata
    ELSE LET kv == split1(line, ":")
             key == upper(strip(kv[1]))
             value == strip(kv[2])
         IN  CASE key = "CANDIDATE_NAME" ->
                    [metadata EXCEPT !.candidate_name = IF value # "" THEN value ELSE "unknown"]
               [] key = "EMAIL" ->
                    [metadata EXCEPT !.email = IF value # "" THEN value ELSE "not provided"]
               [] key = "PHONE" ->
                    [metadata EXCEPT !.phone = IF value # "" THEN value ELSE "not provided"]
               [] key = "SUMMARY" -> [metadata EXCEPT !.summary = value]
               [] key = "KEY_SKILLS" -> [metadata EXCEPT !.key_skills = StrippedParts(value)]
               [] key = "EXPERIENCE_YEARS" ->
                    IF SearchDigits(value) # ""
                    THEN [metadata EXCEPT !.experience_years = int(SearchDigits(value))]
                    ELSE metadata
               [] key = "CURRENT_ROLE" ->
                    [metadata EXCEPT !.current_role = IF value # "" THEN value ELSE "unknown"]
               [] key = "EDUCATION" ->
                    [metadata EXCEPT !.education = IF value # "" THEN value ELSE "unknown"]
               [] key = "INDUSTRIES" -> [metadata EXCEPT !.industries = StrippedParts(value)]
               [] OTHER -> metadata

RECURSIVE ParseLines(_, _)
ParseLines(metadata, lines) ==
    IF lines = <<>> THEN metadata
    ELSE ParseLines(ParseLine(metadata, Head(lines)), Tail(lines))

_parse_metadata_response(response_text, filename) ==
    ParseLines(InitialMetadata(filename), split(strip(response_text), "\n"))

\* the record generate_metadata returns from its except branch
DefaultMetadata(filename, error) ==
    [filename |-> filename,
     candidate_name |-> "unknown", email |-> "not provided", phone |-> "not provided",
     summary |-> "resume uploaded but metadata extraction failed", key_skills |-> <<>>,
     experience_years |-> 0, current_role |-> "unknown", education |-> "unknown",
     industries |-> <<>>, error |-> error]

\* mutant: no except branch around the completion call and the parsing
generate_metadata_Uncaught(resume_text, filename, llm) ==
    IF llm.kind = "content"
    THEN Returned(_parse_metadata_response(llm.content, filename))
    ELSE Raised

\* generate_metadata(resume_text, filename), llm being what the completion call does;
\* the text only enters the prompt; both failures end in the except branch
generate_metadata(resume_text, filename, llm) ==
    CASE llm.kind = "content" -> Returned(_parse_metadata_response(llm.content, filename))
      [] llm.kind = "raises" -> Returned(DefaultMetadata(filename, llm.content))
      [] llm.kind = "null" ->
            Returned(DefaultMetadata(filename, "'NoneType' object has no attribute 'strip'"))

\* what the metadata completion call does in the manager's runs
AnnResponse ==
    "CANDIDATE_NAME: Ann\nKEY_SKILLS: AWS\nEXPERIENCE_YEARS: 3\nCURRENT_ROLE: dev\nINDUSTRIES: tech"

MetaOutcomes == {Fails, Answers(AnnResponse)}

\* mutant: a file whose text cannot be extracted is processed as an empty text
process_resume_EmptyOnFailure(content, filename, parse_ok, llm) ==
    LET text == extract_text(content, filename, parse_ok)
    IN  IF text.ok
        THEN Returned([text |-> text.value,
                       metadata |-> generate_metadata(text.value, filename, llm).value])
        ELSE Returned([text |-> "", metadata |-> DefaultMetadata(filename, text.value)])

process_resume(content, filename, parse_ok, llm) ==
    LET text == extract_text(content, filename, parse_ok)
        metadata == generate_metadata(text.value, filename, llm)
    IN  IF text.ok /\ metadata.ok
        THEN Returned([text |-> text.value, metadata |-> metadata.value])
        ELSE Raised

(***************************************************************************)
(* ResumeManager: the store                                                *)
(***************************************************************************)
Ids(rs) == {rs[i].id : i \in 1..Len(rs)}

RECURSIVE NextFreeId(_, _, _)
NextFreeId(base_id, counter, ids) ==
    LET resume_id == base_id \o "_" \o ToString(counter)
    IN  IF resume_id \in ids THEN NextFreeId(base_id, counter + 1, ids) ELSE resume_id

\* mutant: the id is the base id even when it is taken
_generate_resume_id_NoSuffix(filename, rs) == replace(replace(filename, " ", "_"), ".", "_")

_generate_resume_id(filename, rs) ==
    LET base_id == replace(replace(filename, " ", "_"), ".", "_")
    IN  IF base_id \in Ids(rs) THEN NextFreeId(base_id, 1, Ids(rs)) ELSE base_id

\* the enriched chunks add_resume stores for a text
EnrichedChunks(text, metadata) ==
    LET chunks == _chunk_text(text, DefaultChunkSize, DefaultOverlap)
    IN  [i \in 1..Len(chunks) |->
            "[resume: " \o metadata.candidate_name \o "]\n" \o chunks[i]]

\* the embedding model: a fixed function of the text
RECURSIVE CountChar(_, _)
CountChar(s, c) ==
    IF s = "" THEN 0
    ELSE (IF CharAt(s, 1) = c THEN 1 ELSE 0) + CountChar(Tail0(s, 1), c)

Embed(s) == <<CountChar(s, "a"), CountChar(s, "b")>>

IndexNone == [absent |-> TRUE, vectors |-> <<>>]

IndexFlatL2(chunks) == [absent |-> FALSE, vectors |-> [i \in 1..Len(chunks) |-> Embed(chunks[i])]]

ntotal(ix) == Len(ix.vectors)

\* the two loops of _rebuild_index: every chunk of every resume, in insertion order
CollectChunks(rs) == Concat([i \in 1..Len(rs) |-> rs[i].chunks])

\* mutant: one map entry per resume instead of one per chunk
CollectOwners_PerResume(rs) == [i \in 1..Len(rs) |-> rs[i].id]

CollectOwners(rs) == Concat([i \in 1..Len(rs) |-> [j \in 1..Len(rs[i].chunks) |-> rs[i].id]])

\* what model.encode can do: return the vectors, or raise
EncodeOutcomes == BOOLEAN

\* mutant: the two lists are not emptied before the chunks are collected
_rebuild_index_NoReset(rs) ==
    /\ all_chunks' = all_chunks \o CollectChunks(rs)
    /\ chunk_to_resume' = chunk_to_resume \o CollectOwners(rs)
    /\ IF all_chunks' # <<>>
       THEN \E embed_ok \in EncodeOutcomes :
                /\ index' = IF embed_ok THEN IndexFlatL2(all_chunks') ELSE index
                /\ raised' = ~embed_ok
       ELSE /\ index' = IndexNone
            /\ raised' = FALSE

\* _rebuild_index over the resumes rs; raised' tells whether encode raised
_rebuild_index(rs) ==
    /\ all_chunks' = CollectChunks(rs)
    /\ chunk_to_resume' = CollectOwners(rs)
    /\ IF all_chunks' # <<>>
       THEN \E embed_ok \in EncodeOutcomes :
                /\ index' = IF embed_ok THEN IndexFlatL2(all_chunks') ELSE index
                /\ raised' = ~embed_ok
       ELSE /\ index' = IndexNone
            /\ raised' = FALSE

NoCalls == [completion |-> 0, embed |-> 0]

\* the trace of a call that retrieves nothing and completes nothing
NoTrace == [path |-> "none", context |-> "", sent |-> <<>>, outcome |-> "none"]

(***************************************************************************)
(* Inputs the environment can hand to the manager.                         *)
(***************************************************************************)
Filenames == {"a b.pdf", "x.exe"}
DocTexts == {"", "a\n\nbb"}
ResumeIds == {"a_b_pdf", "a_b_pdf_1", "nobody"}
Queries == {"a", "Compare a", "what about a"}
SearchQueries == {"a", "bbbb"}
SystemPrompts == {"", "be brief"}       \* "" is the default, None
CompletionOutcomes == {"fail", "ok"}    \* the completion call raises, or answers "ok"
Ks == 1..MaxK
Skills == {"aws", "b"}

(***************************************************************************)
(* add_resume, remove_resume, clear_all_resumes, clear_conversation        *)
(***************************************************************************)
add_resume(content, filename, parse_ok, llm) ==
    /\ op' = "add_resume"
    /\ trace' = NoTrace
    /\ rebuilds' = 0
    /\ arg' = [filename |-> filename, readable |-> parse_ok]
    /\ UNCHANGED <<conv, max_messages>>
    /\ \E processed \in {process_resume(content, filename, parse_ok, llm)} :
        IF ~processed.ok
        THEN /\ raised' = TRUE
             /\ ret' = "error"
             /\ calls' = NoCalls
             /\ UNCHANGED store
        ELSE \E resume_id \in {_generate_resume_id(filename, resumes)} :
             /\ resumes' = Append(resumes,
                    [text |-> processed.value.text,
                     metadata |-> processed.value.metadata,
                     id |-> resume_id,
                     chunks |-> EnrichedChunks(processed.value.text,
                                               processed.value.metadata)])
             /\ _rebuild_index(resumes')
             /\ ret' = IF raised' THEN "error" ELSE <<resume_id, processed.value.metadata>>
             /\ calls' = [completion |-> 1, embed |-> IF all_chunks' # <<>> THEN 1 ELSE 0]

\* resumes without the record stored under resume_id
Without(rs, resume_id) == SelectSeq(rs, LAMBDA r : r.id # resume_id)

\* mutant: no early return for an id that is not stored
remove_resume_Unchecked(resume_id) ==
    /\ op' = "remove_resume"
    /\ trace' = NoTrace
    /\ rebuilds' = 0
    /\ arg' = [resume_id |-> resume_id]
    /\ UNCHANGED <<conv, max_messages>>
    /\ resumes' = Without(resumes, resume_id)
    /\ _rebuild_index(resumes')
    /\ ret' = IF raised' THEN "error" ELSE TRUE
    /\ calls' = [completion |-> 0, embed |-> IF all_chunks' # <<>> THEN 1 ELSE 0]

\* mutant: the record is deleted and the index is not rebuilt
remove_resume_NoRebuild(resume_id) ==
    /\ op' = "remove_resume"
    /\ trace' = NoTrace
    /\ rebuilds' = 0
    /\ arg' = [resume_id |-> resume_id]
    /\ UNCHANGED <<conv, max_messages, all_chunks, chunk_to_resume, index>>
    /\ resumes' = Without(resumes, resume_id)
    /\ ret' = (resume_id \in Ids(resumes))
    /\ raised' = FALSE
    /\ calls' = NoCalls

remove_resume(resume_id) ==
    /\ op' = "remove_resume"
    /\ trace' = NoTrace
    /\ rebuilds' = 0
    /\ arg' = [resume_id |-> resume_id]
    /\ UNCHANGED <<conv, max_messages>>
    /\ IF resume_id \notin Ids(resumes)
       THEN /\ ret' = FALSE
            /\ raised' = FALSE
            /\ calls' = NoCalls
            /\ UNCHANGED store
       ELSE /\ resumes' = Without(resumes, resume_id)
            /\ _rebuild_index(resumes')
            /\ ret' = IF raised' THEN "error" ELSE TRUE
            /\ calls' = [completion |-> 0, embed |-> IF all_chunks' # <<>> THEN 1 ELSE 0]

\* _rebuild_index called on its own
rebuild ==
    /\ op' = "_rebuild_index"
    /\ trace' = NoTrace
    /\ arg' = <<>>
    /\ _rebuild_index(resumes)
    /\ ret' = IF raised' THEN "error" ELSE "None"
    /\ rebuilds' = IF raised' THEN 0 ELSE Min(rebuilds + 1, 2)
    /\ calls' = [completion |-> 0, embed |-> IF all_chunks' # <<>> THEN 1 ELSE 0]
    /\ UNCHANGED <<resumes, conv, max_messages>>

\* mutant: the conversation memory is not cleared with the documents
clear_all_resumes_KeepsMemory ==
    /\ op' = "clear_all_resumes"
    /\ trace' = NoTrace
    /\ rebuilds' = 0
    /\ arg' = <<>>
    /\ resumes' = <<>>
    /\ all_chunks' = <<>>
    /\ chunk_to_resume' = <<>>
    /\ index' = IndexNone
    /\ ret' = "None"
    /\ raised' = FALSE
    /\ calls' = NoCalls
    /\ UNCHANGED <<conv, max_messages>>

clear_all_resumes ==
    /\ op' = "clear_all_resumes"
    /\ trace' = NoTrace
    /\ rebuilds' = 0
    /\ arg' = <<>>
    /\ resumes' = <<>>
    /\ all_chunks' = <<>>
    /\ chunk_to_resume' = <<>>
    /\ index' = IndexNone
    /\ messages' = <<>>
    /\ added' = <<>>
    /\ ret' = "None"
    /\ raised' = FALSE
    /\ calls' = NoCalls
    /\ UNCHANGED max_messages

clear_conversation ==
    /\ op' = "clear_conversation"
    /\ trace' = NoTrace
    /\ rebuilds' = 0
    /\ arg' = <<>>
    /\ messages' = <<>>
    /\ added' = <<>>
    /\ ret' = "None"
    /\ raised' = FALSE
    /\ calls' = NoCalls
    /\ UNCHANGED <<store, max_messages>>

(***************************************************************************)
(* faiss IndexFlatL2.search and the two search methods                     *)
(***************************************************************************)
SqDist(u, v) == (u[1] - v[1]) * (u[1] - v[1]) + (u[2] - v[2]) * (u[2] - v[2])

\* position p comes before position q for the query vector qv: nearer first,
\* the lower position first among equals
Nearer(vectors, qv, p, q) ==
    \/ SqDist(vectors[p], qv) < SqDist(vectors[q], qv)
    \/ SqDist(vectors[p], qv) = SqDist(vectors[q], qv) /\ p <= q

RECURSIVE Nearest(_, _, _, _)
Nearest(vectors, qv, k, cands) ==
    IF k = 0 \/ cands = {} THEN <<>>
    ELSE LET best == CHOOSE p \in cands : \A q \in cands : Nearer(vectors, qv, p, q)
         IN  <<[idx |-> best, distance |-> SqDist(vectors[best], qv)]>>
             \o Nearest(vectors, qv, k - 1, cands \ {best})

\* index.search(query_embedding, k): the k nearest (distance, position) pairs
IndexSearch(ix, qv, k) == Nearest(ix.vectors, qv, k, 1..ntotal(ix))

SearchIsEmpty(ix) == ix.absent \/ ntotal(ix) = 0

\* the hits of index.search that the loop keeps: idx < len(all_chunks), 0-based
KeptHits(ix, chunks, query, k) ==
    SelectSeq(IndexSearch(ix, Embed(query), Min(k, ntotal(ix))),
              LAMBDA h : h.idx <= Len(chunks))

\* the list search_resumes builds once the query is embedded
SearchResults(ix, chunks, owners, query, k) ==
    LET hits == KeptHits(ix, chunks, query, k)
    IN  [i \in 1..Len(hits) |->
            [resume_id |-> owners[hits[i].idx],
             distance |-> hits[i].distance,
             chunk |-> chunks[hits[i].idx]]]

\* what search_resumes returns when encoding the query works
SearchView(ix, chunks, owners, query, k) ==
    IF SearchIsEmpty(ix) THEN <<>> ELSE SearchResults(ix, chunks, owners, query, k)

\* mutant: the query is embedded before the index is looked at
search_resumes_EmbedFirst(query, k) ==
    /\ op' = "search_resumes"
    /\ trace' = NoTrace
    /\ rebuilds' = 0
    /\ arg' = [k |-> k, query |-> query]
    /\ UNCHANGED <<store, conv, max_messages>>
    /\ \E embed_ok \in EncodeOutcomes :
         /\ raised' = ~embed_ok
         /\ ret' = IF ~embed_ok THEN "error"
                   ELSE SearchView(index, all_chunks, chunk_to_resume, query, k)
         /\ calls' = [completion |-> 0, embed |-> 1]

search_resumes(query, k) ==
    /\ op' = "search_resumes"
    /\ trace' = NoTrace
    /\ rebuilds' = 0
    /\ arg' = [k |-> k, query |-> query]
    /\ UNCHANGED <<store, conv, max_messages>>
    /\ IF SearchIsEmpty(index)
       THEN /\ ret' = <<>>
            /\ raised' = FALSE
            /\ calls' = NoCalls
       ELSE \E embed_ok \in EncodeOutcomes :
            /\ raised' = ~embed_ok
            /\ ret' = IF embed_ok
                      THEN SearchResults(index, all_chunks, chunk_to_resume, query, k)
                      ELSE "error"
            /\ calls' = [completion |-> 0, embed |-> 1]

MetadataOf(rs, resume_id) == (CHOOSE r \in {rs[i] : i \in 1..Len(rs)} : r.id = resume_id).metadata

FirstN(lst, n) == SubSeq(lst, 1, Min(n, Len(lst)))

\* the loop of search_resumes_with_metadata from hit i on, `seen` being seen_candidates
RECURSIVE MetadataResults(_, _, _, _, _, _)
MetadataResults(rs, chunks, owners, hits, i, seen) ==
    IF i > Len(hits) THEN <<>>
    ELSE LET resume_id == owners[hits[i].idx]
             chunk == chunks[hits[i].idx]
             meta == MetadataOf(rs, resume_id)
             candidate_name == meta.candidate_name
         IN  IF resume_id \in Ids(rs)
             THEN <<[text |-> chunk,
                     candidate_name |-> candidate_name,
                     key_skills |-> FirstN(meta.key_skills, 5),
                     experience_years |-> meta.experience_years,
                     current_role |-> meta.current_role,
                     distance |-> hits[i].distance,
                     formatted_text |->
                        IF candidate_name \notin seen
                        THEN "\n=== " \o candidate_name \o " (" \o meta.current_role
                             \o ") ===\n" \o chunk
                        ELSE "[" \o candidate_name \o "]: " \o chunk]>>
                  \o MetadataResults(rs, chunks, owners, hits, i + 1,
                                     seen \cup {candidate_name})
             ELSE <<[text |-> chunk,
                     candidate_name |-> "Unknown",
                     key_skills |-> <<>>,
                     experience_years |-> 0,
                     current_role |-> "Unknown",
                     distance |-> hits[i].distance,
                     formatted_text |-> chunk]>>
                  \o MetadataResults(rs, chunks, owners, hits, i + 1, seen)

\* the list search_resumes_with_metadata builds once the query is embedded
SearchResultsWithMetadata(rs, ix, chunks, owners, query, k) ==
    MetadataResults(rs, chunks, owners, KeptHits(ix, chunks, query, k), 1, {})

search_resumes_with_metadata(query, k) ==
    /\ op' = "search_resumes_with_metadata"
    /\ trace' = NoTrace
    /\ rebuilds' = 0
    /\ arg' = [k |-> k, query |-> query]
    /\ UNCHANGED <<store, conv, max_messages>>
    /\ IF SearchIsEmpty(index)
       THEN /\ ret' = <<>>
            /\ raised' = FALSE
            /\ calls' = NoCalls
       ELSE \E embed_ok \in EncodeOutcomes :
            /\ raised' = ~embed_ok
            /\ ret' = IF embed_ok
                      THEN SearchResultsWithMetadata(resumes, index, all_chunks,
                                                     chunk_to_resume, query, k)
                      ELSE "error"
            /\ calls' = [completion |-> 0, embed |-> 1]

(***************************************************************************)
(* ResumeManager.query                                                     *)
(***************************************************************************)
NoResumesMessage ==
    "no resumes have been uploaded yet - please upload some resumes first to start querying"

cross_resume_keywords ==
    {"who", "which candidate", "compare", "all", "everyone", "anyone",
     "best", "most", "candidates", "people", "resumes", "group",
     "among", "between", "across"}

follow_up_keywords ==
    {"tell me more", "what about", "their", "them", "he ", "she ", "they ",
     "his ", "her ", "elaborate", "continue", "and what", "also"}

\* mutant: the query is not lower-cased before the keywords are looked for
is_cross_resume_CaseSensitive(user_query) ==
    \E kw \in cross_resume_keywords : Contains(user_query, kw)

is_cross_resume(user_query) == \E kw \in cross_resume_keywords : Contains(lower(user_query), kw)

is_follow_up(user_query) == \E kw \in follow_up_keywords : Contains(lower(user_query), kw)

\* the two flags of every query of the model, computed once
QueryFlags ==
    [q \in Queries |-> [is_cross_resume |-> is_cross_resume(q), is_follow_up |-> is_follow_up(q)]]

\* {**metadata, "resume_id": resume_id}
WithResumeId(metadata, resume_id) ==
    [key \in DOMAIN metadata \cup {"resume_id"} |->
        IF key = "resume_id" THEN resume_id ELSE metadata[key]]

\* get_all_metadata(): the metadata of every resume with its id, in insertion order
get_all_metadata(rs) == [i \in 1..Len(rs) |-> WithResumeId(rs[i].metadata, rs[i].id)]

\* the overview _build_cross_resume_context writes, one block per resume
RECURSIVE CrossOverview(_)
CrossOverview(all_meta) ==
    IF all_meta = <<>> THEN ""
    ELSE LET meta == Head(all_meta)
         IN  "\n" \o meta.candidate_name \o "\n"
             \o "   role: " \o meta.current_role \o "\n"
             \o "   experience: " \o ToString(meta.experience_years) \o " years\n"
             \o "   skills: " \o join(", ", FirstN(meta.key_skills, 10)) \o "\n"
             \o "   industries: " \o join(", ", FirstN(meta.industries, 5)) \o "\n"
             \o CrossOverview(Tail(all_meta))

\* mutant: every hit is kept, also a second one of the same resume
RECURSIVE RelevantContent_EveryHit(_, _)
RelevantContent_EveryHit(search_results, seen_resumes) ==
    IF search_results = <<>> THEN ""
    ELSE "\n" \o Head(search_results).chunk \o "\n"
         \o RelevantContent_EveryHit(Tail(search_results), seen_resumes)

\* the chunks _build_cross_resume_context keeps: the first hit of every resume
RECURSIVE RelevantContent(_, _)
RelevantContent(search_results, seen_resumes) ==
    IF search_results = <<>> THEN ""
    ELSE LET r == Head(search_results)
         IN  IF r.resume_id \notin seen_resumes
             THEN "\n" \o r.chunk \o "\n"
                  \o RelevantContent(Tail(search_results), seen_resumes \cup {r.resume_id})
             ELSE RelevantContent(Tail(search_results), seen_resumes)

\* _build_cross_resume_context once search_resumes(query, k=6) returned search_results
_build_cross_resume_context(rs, search_results) ==
    "=== resume database overview ===\n" \o CrossOverview(get_all_metadata(rs))
    \o "\n=== relevant resume sections ===\n" \o RelevantContent(search_results, {})

\* the context of the other path, from what search_resumes_with_metadata returned
SingleContext(search_results) ==
    join("\n\n", [i \in 1..Len(search_results) |-> search_results[i].formatted_text])

\* the context query builds on path `path` when encoding the query works
BuildContext(path, user_query) ==
    IF path = "cross"
    THEN _build_cross_resume_context(resumes,
            SearchView(index, all_chunks, chunk_to_resume, user_query, QueryK))
    ELSE SingleContext(
            IF SearchIsEmpty(index) THEN <<>>
            ELSE SearchResultsWithMetadata(resumes, index, all_chunks, chunk_to_resume,
                                           user_query, QueryK))

\* _get_candidates_overview(); "*" stands for the bullet character of the source
_get_candidates_overview(rs) ==
    IF rs = <<>> THEN "No candidates in database."
    ELSE join("\n",
            [i \in 1..Len(rs) |->
                LET meta == rs[i].metadata
                    skills == join(", ", FirstN(meta.key_skills, 4))
                IN  "* " \o meta.candidate_name \o ": " \o meta.current_role \o " | "
                    \o ToString(meta.experience_years) \o " years | Skills: "
                    \o (IF skills # "" THEN skills ELSE "Not specified")])

\* the system message: the caller's prompt if there is one, else the default
\* prompt, which carries the overview and the context
system_content(rs, system_prompt, context) ==
    IF system_prompt # "" THEN system_prompt
    ELSE "You are an expert HR assistant helping analyze a collection of resumes.\n\n"
         \o "=== CANDIDATES IN DATABASE ===\n"
         \o _get_candidates_overview(rs) \o "\n\n"
         \o "=== INSTRUCTIONS ===\n"
         \o "- When discussing a candidate, ALWAYS include their full name\n"
         \o "- When comparing candidates, clearly separate information about each person\n"
         \o "- If using pronouns (he/she/they), make sure it's clear who you're referring to\n"
         \o "- When asked follow-up questions, refer back to previously discussed candidates\n"
         \o "- Be objective and cite specific information from their resumes\n"
         \o "- If information is not available, clearly state that\n\n"
         \o "=== RESUME CONTEXT ===\n"
         \o context

user_message(user_query, follow_up) ==
    IF follow_up
    THEN "Follow-up question (refer to previously discussed candidates): " \o user_query
         \o "\n\nPlease continue the conversation and answer based on the context above."
    ELSE "Question: " \o user_query
         \o "\n\nPlease provide a helpful, accurate answer. Always specify which candidate you're discussing."

\* mutant: the whole memory is handed over, not its last 8 turns
CompletionMessages_WholeHistory(rs, msgs, user_query, use_memory, system_prompt, context) ==
    LET conv_context == IF use_memory THEN msgs ELSE <<>>
    IN  <<Turn("system", system_content(rs, system_prompt, context))>>
        \o conv_context
        \o <<Turn("user", user_message(user_query,
                    QueryFlags[user_query].is_follow_up /\ conv_context # <<>>))>>

\* the list handed to chat.completions.create
CompletionMessages(rs, msgs, user_query, use_memory, system_prompt, context) ==
    LET conv_context == IF use_memory THEN get_context(msgs, MemoryWindow) ELSE <<>>
    IN  <<Turn("system", system_content(rs, system_prompt, context))>>
        \o conv_context
        \o <<Turn("user", user_message(user_query,
                    QueryFlags[user_query].is_follow_up /\ conv_context # <<>>))>>

\* mutant: a failure of the completion call is not caught
Answer_Uncaught(user_query, use_memory, system_prompt, path, context, embed_calls, llm) ==
    IF QueryFlags[user_query].is_follow_up /\ ~use_memory
    THEN /\ ret' = "error"
         /\ raised' = TRUE
         /\ calls' = [completion |-> 0, embed |-> embed_calls]
         /\ trace' = [NoTrace EXCEPT !.path = path, !.context = context]
         /\ UNCHANGED conv
    ELSE /\ calls' = [completion |-> 1, embed |-> embed_calls]
         /\ trace' = [path |-> path, context |-> context,
                      sent |-> CompletionMessages(resumes, messages, user_query, use_memory,
                                                  system_prompt, context),
                      outcome |-> IF llm = "fail" THEN "raises" ELSE "content"]
         /\ IF llm = "fail"
            THEN /\ ret' = "error"
                 /\ raised' = TRUE
                 /\ UNCHANGED conv
            ELSE /\ ret' = llm
                 /\ raised' = FALSE
                 /\ messages' = add_message(add_message(messages, max_messages, "user", user_query),
                                            max_messages, "assistant", llm)
                 /\ added' = added \o <<Turn("user", user_query), Turn("assistant", llm)>>

\* mutant: the question is saved to the memory before the completion call is made
Answer_SavesQuestionFirst(user_query, use_memory, system_prompt, path, context, embed_calls, llm) ==
    IF QueryFlags[user_query].is_follow_up /\ ~use_memory
    THEN /\ ret' = "error"
         /\ raised' = TRUE
         /\ calls' = [completion |-> 0, embed |-> embed_calls]
         /\ trace' = [NoTrace EXCEPT !.path = path, !.context = context]
         /\ UNCHANGED conv
    ELSE /\ calls' = [completion |-> 1, embed |-> embed_calls]
         /\ trace' = [path |-> path, context |-> context,
                      sent |-> CompletionMessages(resumes, messages, user_query, use_memory,
                                                  system_prompt, context),
                      outcome |-> IF llm = "fail" THEN "raises" ELSE "content"]
         /\ IF llm = "fail"
            THEN /\ ret' = "error generating response: boom"
                 /\ raised' = FALSE
                 /\ messages' = add_message(messages, max_messages, "user", user_query)
                 /\ added' = added \o <<Turn("user", user_query)>>
            ELSE /\ ret' = llm
                 /\ raised' = FALSE
                 /\ messages' = add_message(add_message(messages, max_messages, "user", user_query),
                                            max_messages, "assistant", llm)
                 /\ added' = added \o <<Turn("user", user_query), Turn("assistant", llm)>>

\* the part of query after the context is built; llm is what the completion call does
Answer(user_query, use_memory, system_prompt, path, context, embed_calls, llm) ==
    IF QueryFlags[user_query].is_follow_up /\ ~use_memory
    THEN \* conv_context is read before it was ever assigned
         /\ ret' = "error"
         /\ raised' = TRUE
         /\ calls' = [completion |-> 0, embed |-> embed_calls]
         /\ trace' = [NoTrace EXCEPT !.path = path, !.context = context]
         /\ UNCHANGED conv
    ELSE /\ calls' = [completion |-> 1, embed |-> embed_calls]
         /\ trace' = [path |-> path, context |-> context,
                      sent |-> CompletionMessages(resumes, messages, user_query, use_memory,
                                                  system_prompt, context),
                      outcome |-> IF llm = "fail" THEN "raises" ELSE "content"]
         /\ IF llm = "fail"
            THEN /\ ret' = "error generating response: boom"
                 /\ raised' = FALSE
                 /\ UNCHANGED conv
            ELSE /\ ret' = llm
                 /\ raised' = FALSE
                 /\ messages' = add_message(add_message(messages, max_messages, "user", user_query),
                                            max_messages, "assistant", llm)
                 /\ added' = added \o <<Turn("user", user_query), Turn("assistant", llm)>>

\* the retrieval path query takes for a query
PathOf(user_query) == IF QueryFlags[user_query].is_cross_resume THEN "cross" ELSE "single"

\* mutant: no early return for a store without documents
query_NoEmptyCheck(user_query, use_memory, system_prompt, llm) ==
    /\ op' = "query"
    /\ rebuilds' = 0
    /\ arg' = [user_query |-> user_query, system_prompt |-> system_prompt,
               use_memory |-> use_memory]
    /\ UNCHANGED <<store, max_messages>>
    /\ Answer(user_query, use_memory, system_prompt, PathOf(user_query),
              BuildContext(PathOf(user_query), user_query), 0, llm)

query(user_query, use_memory, system_prompt, llm) ==
    /\ op' = "query"
    /\ rebuilds' = 0
    /\ arg' = [user_query |-> user_query, system_prompt |-> system_prompt,
               use_memory |-> use_memory]
    /\ UNCHANGED <<store, max_messages>>
    /\ IF resumes = <<>>
       THEN /\ ret' = NoResumesMessage
            /\ raised' = FALSE
            /\ calls' = NoCalls
            /\ trace' = NoTrace
            /\ UNCHANGED conv
       ELSE IF SearchIsEmpty(index)
       THEN Answer(user_query, use_memory, system_prompt, PathOf(user_query),
                   BuildContext(PathOf(user_query), user_query), 0, llm)
       ELSE \E embed_ok \in EncodeOutcomes :
            IF embed_ok
            THEN Answer(user_query, use_memory, system_prompt, PathOf(user_query),
                        BuildContext(PathOf(user_query), user_query), 1, llm)
            ELSE \* encoding the query raises inside the search of either path
                 /\ ret' = "error"
                 /\ raised' = TRUE
                 /\ calls' = [completion |-> 0, embed |-> 1]
                 /\ trace' = [NoTrace EXCEPT !.path = PathOf(user_query)]
                 /\ UNCHANGED conv

(***************************************************************************)
(* summarize_resume, find_candidates_with_skill                            *)
(***************************************************************************)
RecordOf(rs, resume_id) == CHOOSE r \in {rs[i] : i \in 1..Len(rs)} : r.id = resume_id

\* the user message of summarize_resume
SummaryPrompt(data) ==
    "please provide a comprehensive professional summary for this candidate:\n\n"
    \o "name: " \o data.metadata.candidate_name \o "\n"
    \o "current role: " \o data.metadata.current_role \o "\n"
    \o "experience: " \o ToString(data.metadata.experience_years) \o " years\n"
    \o "education: " \o data.metadata.education \o "\n"
    \o "key skills: " \o join(", ", data.metadata.key_skills) \o "\n\n"
    \o "full resume text:\n"
    \o FirstN(data.text, 6000) \o "\n\n"
    \o "provide a 3-4 paragraph summary covering:\n"
    \o "1. professional background and expertise\n"
    \o "2. key achievements and notable experience\n"
    \o "3. technical skills and competencies\n"
    \o "4. overall assessment and potential fit for technical roles"

SummaryMessages(data) ==
    <<Turn("system",
           "you are an expert hr professional creating comprehensive candidate summaries"),
      Turn("user", SummaryPrompt(data))>>

summarize_resume(resume_id, llm) ==
    /\ op' = "summarize_resume"
    /\ rebuilds' = 0
    /\ arg' = [resume_id |-> resume_id]
    /\ UNCHANGED <<store, conv, max_messages>>
    /\ IF resume_id \notin Ids(resumes)
       THEN /\ ret' = "resume with id '" \o resume_id \o "' not found"
            /\ raised' = FALSE
            /\ calls' = NoCalls
            /\ trace' = NoTrace
       ELSE /\ ret' = IF llm = "fail" THEN "error generating summary: boom" ELSE llm
            /\ raised' = FALSE
            /\ calls' = [completion |-> 1, embed |-> 0]
            /\ trace' = [NoTrace EXCEPT
                            !.sent = SummaryMessages(RecordOf(resumes, resume_id)),
                            !.outcome = IF llm = "fail" THEN "raises" ELSE "content"]

\* the test of find_candidates_with_skill for one resume
HasSkill(data, skill) ==
    \/ \E i \in 1..Len(data.metadata.key_skills) :
            Contains(lower(data.metadata.key_skills[i]), lower(skill))
    \/ Contains(lower(data.text), lower(skill))

\* mutant: only the extracted skills are looked at
Matching_SkillsOnly(rs, skill) ==
    LET hits == SelectSeq(rs, LAMBDA data :
                    \E i \in 1..Len(data.metadata.key_skills) :
                        Contains(lower(data.metadata.key_skills[i]), lower(skill)))
    IN  [i \in 1..Len(hits) |-> WithResumeId(hits[i].metadata, hits[i].id)]

\* the list find_candidates_with_skill builds
Matching(rs, skill) ==
    LET hits == SelectSeq(rs, LAMBDA data : HasSkill(data, skill))
    IN  [i \in 1..Len(hits) |-> WithResumeId(hits[i].metadata, hits[i].id)]

find_candidates_with_skill(skill) ==
    /\ op' = "find_candidates_with_skill"
    /\ trace' = NoTrace
    /\ rebuilds' = 0
    /\ arg' = [skill |-> skill]
    /\ ret' = Matching(resumes, skill)
    /\ raised' = FALSE
    /\ calls' = NoCalls
    /\ UNCHANGED <<store, conv, max_messages>>

(***************************************************************************)
(* app.py: the "Process Files" handler of the upload panel                 *)
(***************************************************************************)
\* the manager as the loop sees it, with the two counters and what was shown
BatchStart ==
    [resumes |-> resumes, all_chunks |-> all_chunks, chunk_to_resume |-> chunk_to_resume,
     index |-> index, completion |-> 0, embed |-> 0, accepted |-> 0,
     rejected |-> 0, shown |-> <<>>]

\* resume_manager.add_resume(file_bytes, name) inside the loop, from the state st;
\* the result says whether the call raised
AddResumeTo(st, file) ==
    LET processed == process_resume(file.content, file.filename, file.parse_ok, file.meta)
        resume_id == _generate_resume_id(file.filename, st.resumes)
        rs == Append(st.resumes,
                [text |-> processed.value.text,
                 metadata |-> processed.value.metadata,
                 id |-> resume_id,
                 chunks |-> EnrichedChunks(processed.value.text, processed.value.metadata)])
        chunks == CollectChunks(rs)
        encoded == chunks = <<>> \/ file.embed_ok
    IN  IF ~processed.ok THEN [raised |-> TRUE, state |-> st]
        ELSE [raised |-> ~encoded,
              state |-> [st EXCEPT
                            !.resumes = rs,
                            !.all_chunks = chunks,
                            !.chunk_to_resume = CollectOwners(rs),
                            !.index = IF chunks = <<>> THEN IndexNone
                                      ELSE IF file.embed_ok THEN IndexFlatL2(chunks)
                                      ELSE st.index,
                            !.embed = st.embed + (IF chunks # <<>> THEN 1 ELSE 0),
                            !.completion = st.completion + 1]]

\* the except branch of the loop body
FileFailed(st) ==
    [st EXCEPT !.rejected = st.rejected + 1, !.shown = Append(st.shown, "Failed")]

\* one pass of the loop body
FileStep(st, file) ==
    LET extracted == extract_text(file.content, file.filename, file.parse_ok)
        verdict == validate_is_resume(extracted.value, file.classifier)
        checked == [st EXCEPT !.completion = st.completion + verdict.completion]
        after == AddResumeTo(checked, file)
    IN  IF ~extracted.ok THEN FileFailed(st)
        ELSE IF verdict.raised THEN FileFailed(checked)
        ELSE IF ~verdict.value[1]
        THEN [checked EXCEPT !.rejected = checked.rejected + 1,
                             !.shown = Append(checked.shown, "Rejected")]
        ELSE IF after.raised THEN FileFailed(after.state)
        ELSE [after.state EXCEPT !.accepted = after.state.accepted + 1,
                                 !.shown = Append(after.state.shown, "Added")]

\* the for loop from file i on
RECURSIVE FilesLoop(_, _, _)
FilesLoop(st, files, i) ==
    IF i > Len(files) THEN st ELSE FilesLoop(FileStep(st, files[i]), files, i + 1)

\* a click on "Process Files" with the files `files` selected
process_files(files) ==
    \E done \in {FilesLoop(BatchStart, files, 1)} :
        /\ op' = "process_files"
        /\ arg' = [files |-> [i \in 1..Len(files) |-> files[i].filename]]
        /\ resumes' = done.resumes
        /\ all_chunks' = done.all_chunks
        /\ chunk_to_resume' = done.chunk_to_resume
        /\ index' = done.index
        /\ ret' = [accepted |-> done.accepted, rejected |-> done.rejected,
                   shown |-> done.shown]
        /\ raised' = FALSE
        /\ calls' = [completion |-> done.completion, embed |-> done.embed]
        /\ trace' = NoTrace
        /\ rebuilds' = 0
        /\ UNCHANGED <<conv, max_messages>>

(***************************************************************************)
(* The manager as a state machine.                                         *)
(***************************************************************************)
Init ==
    /\ resumes = <<>>
    /\ all_chunks = <<>>
    /\ chunk_to_resume = <<>>
    /\ index = IndexNone
    /\ messages = <<>>
    /\ max_messages = DefaultMaxMessages
    /\ added = <<>>
    /\ op = "__init__"
    /\ arg = <<>>
    /\ ret = "None"
    /\ raised = FALSE
    /\ calls = NoCalls
    /\ rebuilds = 0
    /\ trace = NoTrace

AddResume ==
    \E content \in DocTexts, filename \in Filenames, parse_ok \in BOOLEAN,
       llm \in MetaOutcomes :
        /\ Len(resumes) < MaxResumes
        /\ add_resume(content, filename, parse_ok, llm)

RemoveResume == \E resume_id \in ResumeIds : remove_resume(resume_id)

RebuildIndex == rebuild

ClearAllResumes == clear_all_resumes

ClearConversation == clear_conversation

SearchResumes == \E q \in SearchQueries, k \in Ks : search_resumes(q, k)

SearchResumesWithMetadata ==
    \E q \in SearchQueries, k \in Ks : search_resumes_with_metadata(q, k)

SummarizeResume ==
    \E resume_id \in ResumeIds, llm \in CompletionOutcomes : summarize_resume(resume_id, llm)

FindCandidatesWithSkill == \E skill \in Skills : find_candidates_with_skill(skill)

Query ==
    \E q \in Queries, use_memory \in BOOLEAN, system_prompt \in SystemPrompts,
       llm \in CompletionOutcomes :
        /\ llm = "fail" \/ Len(messages) + 2 <= MaxHistory
        /\ query(q, use_memory, system_prompt, llm)

Next ==
    \/ AddResume
    \/ RemoveResume
    \/ RebuildIndex
    \/ ClearAllResumes
    \/ ClearConversation
    \/ SearchResumes
    \/ SearchResumesWithMetadata
    \/ Query
    \/ SummarizeResume
    \/ FindCandidatesWithSkill

Spec == Init /\ [][Next]_vars

(***************************************************************************)
(* A ConversationMemory on its own, built with any bound.                  *)
(***************************************************************************)
Roles == {"user", "assistant"}
Contents == {"x", "y"}
ContextSizes == 0..(MaxBound + 1)

MemInit ==
    /\ resumes = <<>>
    /\ all_chunks = <<>>
    /\ chunk_to_resume = <<>>
    /\ index = IndexNone
    /\ messages = <<>>
    /\ max_messages \in 0..MaxBound
    /\ added = <<>>
    /\ op = "__init__"
    /\ arg = <<>>
    /\ ret = "None"
    /\ raised = FALSE
    /\ calls = NoCalls
    /\ rebuilds = 0
    /\ trace = NoTrace

MemAddMessage ==
    \E role \in Roles, content \in Contents :
        /\ Len(added) < MaxTurns
        /\ op' = "add_message"
        /\ trace' = NoTrace
        /\ UNCHANGED rebuilds
        /\ arg' = [role |-> role, content |-> content]
        /\ messages' = add_message(messages, max_messages, role, content)
        /\ added' = Append(added, Turn(role, content))
        /\ ret' = "None"
        /\ raised' = FALSE
        /\ calls' = NoCalls
        /\ UNCHANGED <<store, max_messages>>

MemGetContext ==
    \E last_n \in ContextSizes :
        /\ op' = "get_context"
        /\ trace' = NoTrace
        /\ UNCHANGED rebuilds
        /\ arg' = [last_n |-> last_n]
        /\ ret' = get_context(messages, last_n)
        /\ raised' = FALSE
        /\ calls' = NoCalls
        /\ UNCHANGED <<store, conv, max_messages>>

MemClear ==
    /\ op' = "clear"
    /\ trace' = NoTrace
    /\ UNCHANGED rebuilds
    /\ arg' = <<>>
    /\ messages' = <<>>
    /\ added' = <<>>
    /\ ret' = "None"
    /\ raised' = FALSE
    /\ calls' = NoCalls
    /\ UNCHANGED <<store, max_messages>>

MemNext == MemAddMessage \/ MemGetContext \/ MemClear

SpecMem == MemInit /\ [][MemNext]_vars

(***************************************************************************)
(* A ResumeProcessor on its own: validate_is_resume and generate_metadata  *)
(* over texts and completion outcomes.                                     *)
(***************************************************************************)
ProcTexts ==
    {"recipe: mix flour", "my skills", "Curriculum Vitae", "Skills and CV",
     "professional summary", "EDUCATION skills cv", "work history, references, objective"}

ClassifierOutcomes ==
    {Fails, AnswersNone,
     Answers("IS_RESUME: YES\nREASON: has name and jobs"),
     Answers("IS_RESUME: NO\nREASON: an essay"),
     Answers(" is_resume : yes "),
     Answers("maybe"),
     Answers("")}

MetaResponses ==
    {Fails, AnswersNone,
     Answers(AnnResponse),
     Answers(""),
     Answers("no idea"),
     Answers("CANDIDATE_NAME:\nEXPERIENCE_YEARS: many\nEMAIL: a@b.c"),
     Answers("EXPERIENCE_YEARS: -5 years\nKEY_SKILLS: , AWS ,, Python\nINDUSTRIES: ,"),
     Answers("Experience_Years: 12+ (since 2010)\nSummary: a: b\nHOBBY: chess")}

ProcFilenames == {"a b.pdf", "r.txt"}

ProcInit == Init

ValidateIsResume ==
    \E text \in ProcTexts, llm \in ClassifierOutcomes :
        \E result \in {validate_is_resume(text, llm)} :
            /\ op' = "validate_is_resume"
            /\ arg' = [text |-> text]
            /\ ret' = result.value
            /\ raised' = result.raised
            /\ calls' = [completion |-> result.completion, embed |-> 0]
            /\ trace' = [NoTrace EXCEPT
                            !.outcome = IF result.completion = 1 THEN llm.kind ELSE "none"]
            /\ UNCHANGED <<store, conv, max_messages, rebuilds>>

GenerateMetadata ==
    \E text \in ProcTexts, filename \in ProcFilenames, llm \in MetaResponses :
        \E result \in {generate_metadata(text, filename, llm)} :
            /\ op' = "generate_metadata"
            /\ arg' = [filename |-> filename, resume_text |-> text]
            /\ ret' = result.value
            /\ raised' = ~result.ok
            /\ calls' = [completion |-> 1, embed |-> 0]
            /\ trace' = [NoTrace EXCEPT !.outcome = llm.kind]
            /\ UNCHANGED <<store, conv, max_messages, rebuilds>>

ExtractFilenames == {"a b.pdf", "R.PDF", "c.docx", "r.txt", "x.exe", "pdf"}

ExtractText ==
    \E content \in DocTexts, filename \in ExtractFilenames, parse_ok \in BOOLEAN :
        \E result \in {extract_text(content, filename, parse_ok)} :
            /\ op' = "extract_text"
            /\ arg' = [filename |-> filename, readable |-> parse_ok]
            /\ ret' = result.value
            /\ raised' = ~result.ok
            /\ calls' = NoCalls
            /\ trace' = NoTrace
            /\ UNCHANGED <<store, conv, max_messages, rebuilds>>

ProcNext == ValidateIsResume \/ GenerateMetadata \/ ExtractText

SpecProc == ProcInit /\ [][ProcNext]_vars

(***************************************************************************)
(* The manager under uploads and removals of files whose names collide.    *)
(***************************************************************************)
IdFilenames == {"a b.pdf", "a_b.pdf", "a.b.pdf", "c.txt", "a b_pdf"}

IdPool == {"a_b_pdf", "a_b_pdf_1", "a_b_pdf_2", "c_txt"}

IdsInit == Init

IdsAddResume ==
    \E filename \in IdFilenames :
        /\ Len(resumes) < MaxUploads
        /\ add_resume("a", filename, TRUE, Fails)

IdsRemoveResume == \E resume_id \in IdPool : remove_resume(resume_id)

IdsNext == IdsAddResume \/ IdsRemoveResume

SpecIds == IdsInit /\ [][IdsNext]_vars

(***************************************************************************)
(* The upload panel: batches of files handed to "Process Files".           *)
(***************************************************************************)
IsResumeYes == Answers("IS_RESUME: YES\nREASON: has name and jobs")

IsResumeNo == Answers("IS_RESUME: NO\nREASON: an essay")

\* an uploaded file: its name, the text its bytes hold, whether a parser reads it,
\* and what the classifier, the metadata call and the encoder do when reached
File(filename, content, parse_ok, classifier, embed_ok) ==
    [content |-> content, parse_ok |-> parse_ok, filename |-> filename,
     embed_ok |-> embed_ok, meta |-> Fails, classifier |-> classifier]

BatchFiles ==
    {File("a b.pdf", "Skills and CV", TRUE, IsResumeYes, TRUE),
     File("a b.pdf", "Skills and CV", TRUE, IsResumeYes, FALSE),
     File("a b.pdf", "Skills and CV", FALSE, IsResumeYes, TRUE),
     File("r.txt", "recipe: mix flour", TRUE, IsResumeYes, TRUE),
     File("r.txt", "Skills and CV", TRUE, IsResumeNo, TRUE),
     File("r.txt", "Skills and CV", TRUE, IsResumeYes, TRUE)}

Batches == UNION {[1..n -> BatchFiles] : n \in 1..MaxBatch}

BatchInit == Init

BatchProcessFiles ==
    \E files \in Batches :
        /\ Len(resumes) + Len(files) <= MaxBatchDocs
        /\ process_files(files)

BatchNext == BatchProcessFiles

SpecBatch == BatchInit /\ [][BatchNext]_vars

(***************************************************************************)
(* One long conversation: the memory of a manager fills up to its bound    *)
(* and past it.                                                            *)
(***************************************************************************)
ConvQueries == {"a", "what about a"}

ConvInit == Init

ConvAddResume ==
    /\ Len(resumes) < 1
    /\ add_resume("a", "a b.pdf", TRUE, Fails)

ConvRemoveResume == remove_resume("a_b_pdf")

ConvQuery ==
    \E q \in ConvQueries, use_memory \in BOOLEAN, llm \in CompletionOutcomes :
        /\ llm = "fail" \/ Len(added) + 2 <= MaxConvTurns
        /\ query(q, use_memory, "", llm)

ConvClearConversation == clear_conversation

ConvClearAllResumes == clear_all_resumes

ConvNext ==
    \/ ConvAddResume
    \/ ConvRemoveResume
    \/ ConvQuery
    \/ ConvClearConversation
    \/ ConvClearAllResumes

SpecConv == ConvInit /\ [][ConvNext]_vars

(***************************************************************************)
(* _chunk_text on its own, over every short text.                          *)
(***************************************************************************)
Alphabet == {"a", "b", " ", "\n"}

RECURSIVE TextsOfLen(_)
TextsOfLen(n) ==
    IF n = 0 THEN {""} ELSE {t \o c : t \in TextsOfLen(n - 1), c \in Alphabet}

Texts == UNION {TextsOfLen(n) : n \in 0..MaxTextLen}

ChunkInit ==
    /\ resumes = <<>>
    /\ all_chunks = <<>>
    /\ chunk_to_resume = <<>>
    /\ index = IndexNone
    /\ messages = <<>>
    /\ max_messages = DefaultMaxMessages
    /\ added = <<>>
    /\ op = "input"
    /\ \E text \in Texts, chunk_size \in 1..MaxChunkSize :
         \E overlap \in 0..(chunk_size - 1) :
            arg = [text |-> text, chunk_size |-> chunk_size, overlap |-> overlap]
    /\ ret = "None"
    /\ raised = FALSE
    /\ calls = NoCalls
    /\ rebuilds = 0
    /\ trace = NoTrace

ChunkText ==
    /\ op = "input"
    /\ op' = "_chunk_text"
    /\ trace' = NoTrace
    /\ UNCHANGED rebuilds
    /\ ret' = _chunk_text(arg.text, arg.chunk_size, arg.overlap)
    /\ UNCHANGED <<store, conv, max_messages, arg, raised, calls>>

ChunkNext == ChunkText

SpecChunk == ChunkInit /\ [][ChunkNext]_vars

(***************************************************************************)
(* Properties.                                                             *)
(***************************************************************************)
\* the last n elements of lst, none when n = 0
MostRecent(lst, n) == SubSeq(lst, Len(lst) - Min(n, Len(lst)) + 1, Len(lst))

\* C1: in every state reached by add_resume, remove_resume and clear_all_resumes
\* (and searches, queries and rebuilds between them, whether or not a call raised),
\* all_chunks and chunk_to_resume have the same length.
C1_EqualLength == Len(all_chunks) = Len(chunk_to_resume)

\* an add_resume whose rebuild raised after the second document's chunks were collected
C1_Witness ==
    /\ op = "add_resume"
    /\ raised
    /\ Len(resumes) = 2
    /\ Len(all_chunks) = 4
    /\ ntotal(index) = 2

\* C2: after every add_resume, remove_resume or clear_all_resumes that returned, the
\* index holds one vector per entry of the chunk table, and it is None exactly when
\* the chunk table is empty.
C2_IndexMatchesChunkTable ==
    (op \in {"add_resume", "remove_resume", "clear_all_resumes"} /\ ~raised)
        => /\ ntotal(index) = Len(all_chunks)
           /\ index.absent <=> (all_chunks = <<>>)

\* C3: remove_resume of an id that is not stored returns False, raises nothing and
\* leaves the documents, the chunk table, the chunk-to-document map, the index and
\* the conversation memory as they were.
C3_RemoveUnknownChangesNothing ==
    [][(op' = "remove_resume" /\ arg'.resume_id \notin Ids(resumes))
        => /\ ~raised'
           /\ ret' = FALSE
           /\ UNCHANGED <<resumes, all_chunks, chunk_to_resume, index, messages>>]_vars

C3_Witness ==
    /\ op = "remove_resume"
    /\ ~raised
    /\ ret = FALSE
    /\ all_chunks # <<>>
    /\ messages # <<>>

\* C4: a _rebuild_index that follows a _rebuild_index which returned, with no other
\* call between them, and returns too, leaves the chunk table, the chunk-to-document
\* map, the size of the index and the results of every search as the first left them.
C4_RebuildIdempotent ==
    [][(op = "_rebuild_index" /\ ~raised /\ op' = "_rebuild_index" /\ ~raised')
        => /\ all_chunks' = all_chunks
           /\ chunk_to_resume' = chunk_to_resume
           /\ index'.absent = index.absent
           /\ ntotal(index') = ntotal(index)
           /\ \A q \in SearchQueries, k \in Ks :
                SearchView(index', all_chunks', chunk_to_resume', q, k)
                    = SearchView(index, all_chunks, chunk_to_resume, q, k)]_vars

C4_Witness ==
    /\ op = "_rebuild_index"
    /\ rebuilds = 2
    /\ Len(all_chunks) = 4
    /\ ntotal(index) = 4

\* C5: after add_message returns the memory holds at most max_messages turns, and
\* they are the most recent turns added since the last clear, in the order added.
C5_MemoryWithinBound ==
    op = "add_message"
        => /\ Len(messages) <= max_messages
           /\ messages = MostRecent(added, max_messages)

\* C6: get_context(n) returns the min(n, len(messages)) most recent turns in the
\* order they were added; none for n = 0 and none for an empty memory.
C6_GetContextMostRecent ==
    op = "get_context" => ret = MostRecent(messages, arg.last_n)

\* the count C7 gives for a section of length len
CeilDiv(a, b) == (a + b - 1) \div b

ClaimedChunkCount(len, chunk_size, overlap) ==
    IF len <= chunk_size THEN 1 ELSE CeilDiv(len - overlap, chunk_size - overlap)

RECURSIVE SumOf(_)
SumOf(ns) == IF ns = <<>> THEN 0 ELSE Head(ns) + SumOf(Tail(ns))

\* C7: a section no longer than chunk_size yields one chunk, the section itself, and
\* a longer section of length L yields ceil((L - overlap) / (chunk_size - overlap))
\* chunks.
C7_SectionChunkCount ==
    op = "_chunk_text"
        => LET secs == Sections(arg.text)
               claimed == [i \in 1..Len(secs) |->
                             ClaimedChunkCount(Len(secs[i]), arg.chunk_size, arg.overlap)]
           IN  /\ Len(ret) = SumOf(claimed)
               /\ \A i \in 1..Len(secs) :
                    /\ Len(SectionChunks(secs[i], arg.chunk_size, arg.overlap)) = claimed[i]
                    /\ Len(secs[i]) <= arg.chunk_size
                         => SectionChunks(secs[i], arg.chunk_size, arg.overlap) = <<secs[i]>>

\* C8: a search_resumes on a non-empty index that returns, returns min(k, number of
\* chunks) results in order of non-decreasing distance, each a chunk of the chunk
\* table with the document id the map holds at the same position.
C8_SearchClampedOrderedPaired ==
    (op = "search_resumes" /\ ~raised /\ ~SearchIsEmpty(index))
        => /\ Len(ret) = Min(arg.k, Len(all_chunks))
           /\ \A i \in 1..(Len(ret) - 1) : ret[i].distance <= ret[i + 1].distance
           /\ \A i \in 1..Len(ret) :
                \E j \in 1..Len(all_chunks) :
                    /\ all_chunks[j] = ret[i].chunk
                    /\ chunk_to_resume[j] = ret[i].resume_id

\* C9: with the index None or empty, search_resumes and search_resumes_with_metadata
\* return an empty list, raise nothing and embed nothing.
C9_EmptyIndexSearch ==
    (op \in {"search_resumes", "search_resumes_with_metadata"} /\ SearchIsEmpty(index))
        => /\ ~raised
           /\ ret = <<>>
           /\ calls.embed = 0

C9_Witness ==
    /\ op = "search_resumes_with_metadata"
    /\ index.absent
    /\ resumes # <<>>
    /\ all_chunks = <<>>
    /\ ret = <<>>

\* C10: query on a store without documents returns the fixed message, makes no
\* external call and leaves the conversation memory as it was.
C10_QueryOnEmptyStore ==
    [][(op' = "query" /\ resumes = <<>>)
        => /\ ~raised'
           /\ ret' = NoResumesMessage
           /\ calls' = NoCalls
           /\ messages' = messages]_vars

C10_Witness ==
    /\ op = "query"
    /\ resumes = <<>>
    /\ messages # <<>>
    /\ ~raised
    /\ ret = NoResumesMessage
    /\ arg.system_prompt # ""

\* C11: a query on a store with documents takes exactly one of the two retrieval
\* paths: the cross-document path, whose context opens with the overview of every
\* document, if and only if the lower-cased query contains one of the cross-document
\* keywords (so "Compare a" takes it), and the single-document path otherwise.
C11_CrossRouting ==
    (op = "query" /\ resumes # <<>>)
        => /\ trace.path \in {"cross", "single"}
           /\ trace.path = "cross"
                <=> \E kw \in cross_resume_keywords : Contains(lower(arg.user_query), kw)
           /\ trace.sent # <<>>
                => (trace.path = "cross"
                        <=> StartsWith(trace.context, "=== resume database overview ===\n"))

C11_Witness ==
    /\ op = "query"
    /\ arg.user_query = "Compare a"
    /\ trace.path = "cross"
    /\ trace.sent # <<>>
    /\ Len(resumes) = 2

\* C12: when the completion call of query or of summarize_resume raises, the
\* operation does not raise: it returns a string that starts with "error generating
\* response: " (query) or "error generating summary: " (summarize_resume).
C12_CompletionFailureReturned ==
    (op \in {"query", "summarize_resume"} /\ trace.outcome = "raises")
        => /\ ~raised
           /\ op = "query" => StartsWith(ret, "error generating response: ")
           /\ op = "summarize_resume" => StartsWith(ret, "error generating summary: ")

C12_Witness ==
    /\ op = "query"
    /\ trace.outcome = "raises"
    /\ ret = "error generating response: boom"
    /\ ntotal(index) # Len(all_chunks)

\* C17: clear_all_resumes leaves no documents, an empty chunk table, an empty
\* chunk-to-document map, no index and an empty conversation memory;
\* clear_conversation empties the conversation memory and leaves the documents, the
\* chunk table, the map and the index as they were.
C17_ClearFrames ==
    [][/\ op' = "clear_all_resumes"
            => /\ resumes' = <<>>
               /\ all_chunks' = <<>>
               /\ chunk_to_resume' = <<>>
               /\ index'.absent
               /\ messages' = <<>>
       /\ op' = "clear_conversation"
            => /\ messages' = <<>>
               /\ UNCHANGED <<resumes, all_chunks, chunk_to_resume, index>>]_vars

C17_Witness ==
    /\ op = "clear_conversation"
    /\ messages = <<>>
    /\ Len(resumes) = 2
    /\ ntotal(index) = 4

\* one of the extracted skills of document r contains the lower-cased skill
InExtractedSkills(r, skill) ==
    \E i \in 1..Len(r.metadata.key_skills) :
        Contains(lower(r.metadata.key_skills[i]), lower(skill))

\* the text of document r contains the lower-cased skill
InText(r, skill) == Contains(lower(r.text), lower(skill))

\* ret lists exactly the documents `want`, in their order, each with its metadata
\* and tagged with its id
ListsExactly(want) ==
    /\ Len(ret) = Len(want)
    /\ \A i \in 1..Len(want) :
         /\ ret[i].resume_id = want[i].id
         /\ \A key \in DOMAIN want[i].metadata : ret[i][key] = want[i].metadata[key]

\* C18: find_candidates_with_skill returns exactly the documents of which one of the
\* key_skills contains the lower-cased skill, once each, in insertion order, tagged
\* with the resume_id.
C18_ExactlySkillHolders ==
    op = "find_candidates_with_skill"
        => ListsExactly(SelectSeq(resumes, LAMBDA r : InExtractedSkills(r, arg.skill)))

\* C18 as amended: a document is returned exactly when the lower-cased skill is
\* contained in one of its lower-cased key_skills or in its lower-cased text.
C18_SkillOrTextHolders ==
    op = "find_candidates_with_skill"
        => ListsExactly(SelectSeq(resumes, LAMBDA r :
                InExtractedSkills(r, arg.skill) \/ InText(r, arg.skill)))

C18_Witness ==
    /\ op = "find_candidates_with_skill"
    /\ arg.skill = "aws"
    /\ Len(resumes) = 2
    /\ Len(ret) = 1
    /\ ret[1].resume_id = "a_b_pdf_1"
    /\ ret[1].key_skills = <<"AWS">>

\* C19: when the embedding raises during the rebuild of an add_resume or a
\* remove_resume, the documents, the chunk table, the chunk-to-document map and the
\* index are left either all as before the call or all as the call would have left
\* them, never a new chunk table next to the old index.
C19_RebuildAtomic ==
    [][(op' \in {"add_resume", "remove_resume"} /\ raised')
        => \/ UNCHANGED <<resumes, all_chunks, chunk_to_resume, index>>
           \/ /\ all_chunks' = CollectChunks(resumes')
              /\ chunk_to_resume' = CollectOwners(resumes')
              /\ index' = IF all_chunks' = <<>> THEN IndexNone
                          ELSE IndexFlatL2(all_chunks')]_vars

\* C20: for every query on a store with documents that reaches the completion call,
\* the context built by the retrieval path taken is contained in one of the messages
\* handed to the call, with or without a system_prompt of the caller.
C20_ContextSubmitted ==
    (op = "query" /\ trace.sent # <<>>)
        => \E i \in 1..Len(trace.sent) : Contains(trace.sent[i].content, trace.context)

\* C13: validate_is_resume on a text with fewer than 2 indicators returns
\* (False, reason) and never makes the classification call.
C13_HeuristicRejectsWithoutCall ==
    (op = "validate_is_resume" /\ indicator_count(arg.text) < 2)
        => /\ ~raised
           /\ ret[1] = FALSE
           /\ ret[2] # ""
           /\ calls.completion = 0

C13_Witness ==
    /\ op = "validate_is_resume"
    /\ arg.text = "my skills"
    /\ indicator_count(arg.text) = 1
    /\ ret = <<FALSE, HeuristicReason>>
    /\ calls = NoCalls

\* C14: validate_is_resume never raises; when the text has at least 2 indicators
\* and the classification call raises, the document is accepted exactly when it has
\* at least 3 indicators, and with exactly 2 it is rejected with a reason that
\* contains the text of the failure.
C14_FallbackOnFailure ==
    op = "validate_is_resume"
        => /\ ~raised
           /\ (indicator_count(arg.text) >= 2 /\ trace.outcome = "raises")
                => /\ ret[1] <=> indicator_count(arg.text) >= 3
                   /\ indicator_count(arg.text) = 2
                        => ~ret[1] /\ Contains(ret[2], Fails.content)

C14_Witness ==
    /\ op = "validate_is_resume"
    /\ indicator_count(arg.text) = 2
    /\ trace.outcome = "raises"
    /\ ret = <<FALSE, "validation failed: boom">>

MetadataFields ==
    {"candidate_name", "email", "phone", "summary", "key_skills", "experience_years",
     "current_role", "education", "industries"}

\* C15: generate_metadata never raises and returns a record with every fixed field,
\* key_skills and industries being lists of strings and experience_years a
\* non-negative integer; when the completion call raises, every field has the value
\* of the fallback record and the record carries the error string.
C15_MetadataWellFormed ==
    op = "generate_metadata"
        => /\ ~raised
           /\ MetadataFields \subseteq DOMAIN ret
           /\ \A key \in MetadataFields \ {"key_skills", "industries", "experience_years"} :
                ret[key] \in STRING
           /\ \A key \in {"key_skills", "industries"} :
                /\ DOMAIN ret[key] = 1..Len(ret[key])
                /\ \A i \in 1..Len(ret[key]) : ret[key][i] \in STRING
           /\ ret.experience_years \in Nat
           /\ trace.outcome = "raises"
                => /\ ret.candidate_name = "unknown"
                   /\ ret.email = "not provided"
                   /\ ret.phone = "not provided"
                   /\ ret.summary = "resume uploaded but metadata extraction failed"
                   /\ ret.key_skills = <<>>
                   /\ ret.experience_years = 0
                   /\ ret.current_role = "unknown"
                   /\ ret.education = "unknown"
                   /\ ret.industries = <<>>
                   /\ "error" \in DOMAIN ret
                   /\ ret.error = Fails.content

C15_Witness ==
    /\ op = "generate_metadata"
    /\ trace.outcome = "raises"
    /\ ret.error = "boom"
    /\ ret.filename = "r.txt"

\* C16: an add_resume that gets past text extraction stores one new record, under an
\* id that was not a key before the call and that is the filename with spaces and
\* dots replaced by underscores, followed by a numeric suffix when that was taken;
\* the records stored before are all still there, unchanged and in their order, and
\* no two records share an id. An add_resume whose extraction raises stores nothing.
C16_FreshIdOneMoreRecord ==
    [][op' = "add_resume"
        => LET base_id == replace(replace(arg'.filename, " ", "_"), ".", "_")
               stored == calls'.completion = 1
               new == resumes'[Len(resumes')]
           IN  /\ SubSeq(resumes', 1, Len(resumes)) = resumes
               /\ Len(resumes') = Len(resumes) + (IF stored THEN 1 ELSE 0)
               /\ Cardinality(Ids(resumes')) = Len(resumes')
               /\ stored
                    => /\ new.id \notin Ids(resumes)
                       /\ StartsWith(new.id, base_id)
                       /\ new.id = base_id <=> base_id \notin Ids(resumes)
                       /\ ~raised' => ret'[1] = new.id]_vars

C16_Witness ==
    /\ op = "add_resume"
    /\ ~raised
    /\ Len(resumes) = 3
    /\ resumes[1].id = "a_b_pdf_1" /\ resumes[1].metadata.filename = "a_b.pdf"
    /\ resumes[2].id = "a_b_pdf" /\ resumes[2].metadata.filename = "a.b.pdf"
    /\ resumes[3].id = "a_b_pdf_2" /\ resumes[3].metadata.filename = "a b.pdf"
    /\ ret[1] = "a_b_pdf_2"

(***************************************************************************)
(* Claims C21..C30.                                                        *)
(***************************************************************************)
\* C21: no exception escapes query(). On a store that holds at least one document,
\* query returns a string for every query text, every use_memory and every
\* system_prompt, a query with a follow-up keyword and use_memory False included.
C21_QueryReturnsString == (op = "query" /\ resumes # <<>>) => (~raised /\ ret \in STRING)

\* C22: in a query with use_memory True whose completion call answers, the list
\* handed to the call is one system message, then the 8 most recent turns of the
\* memory as it was before the query (all of them when there are fewer), oldest
\* first, then the new user turn; and the memory after the query is the memory before
\* it followed by the user turn holding the raw query text and the assistant turn
\* holding the answer, cut to its bound from the old end.
C22_SentThenSaved ==
    [][(op' = "query" /\ arg'.use_memory /\ trace'.outcome = "content")
        => LET sent == trace'.sent
               history == SubSeq(sent, 2, Len(sent) - 1)
               n == Len(messages')
           IN  /\ Len(sent) >= 2
               /\ sent[1].role = "system"
               /\ Len(history) <= 8
               /\ history = MostRecent(messages, 8)
               /\ sent[Len(sent)].role = "user"
               /\ Contains(sent[Len(sent)].content, arg'.user_query)
               /\ n = Min(Len(messages) + 2, max_messages)
               /\ messages'[n - 1] = [role |-> "user", content |-> arg'.user_query]
               /\ messages'[n] = [role |-> "assistant", content |-> ret']
               /\ SubSeq(messages', 1, n - 2) = MostRecent(messages, n - 2)
               /\ added' = added \o SubSeq(messages', n - 1, n)]_vars

\* a query answered with 8 turns of history out of a longer memory that has already
\* dropped its oldest turns, the history holding two different questions
C22_Witness ==
    /\ op = "query"
    /\ arg.use_memory
    /\ trace.outcome = "content"
    /\ Len(trace.sent) = 10
    /\ trace.sent[2].content # trace.sent[4].content
    /\ Len(messages) = DefaultMaxMessages
    /\ Len(added) > Len(messages)

\* C23: in every list search_resumes_with_metadata returns, the first returned chunk
\* of each stored document carries the header "=== name (role) ===" in formatted_text
\* and every later chunk of the same document carries the inline tag "[name]: "
\* instead, also when two stored documents have the same candidate_name.
C23_HeaderPerDocument ==
    (op = "search_resumes_with_metadata" /\ ~raised)
        => LET hits == KeptHits(index, all_chunks, arg.query, arg.k)
               owner(i) == chunk_to_resume[hits[i].idx]
           IN  \A i \in 1..Len(ret) :
                   owner(i) \in Ids(resumes)
                       => IF \A j \in 1..(i - 1) : owner(j) # owner(i)
                          THEN StartsWith(ret[i].formatted_text,
                                          "\n=== " \o ret[i].candidate_name \o " (")
                          ELSE StartsWith(ret[i].formatted_text,
                                          "[" \o ret[i].candidate_name \o "]: ")

\* the overview entry _build_cross_resume_context writes for one stored document
OverviewEntry(r) ==
    "\n" \o r.metadata.candidate_name \o "\n"
    \o "   role: " \o r.metadata.current_role \o "\n"
    \o "   experience: " \o ToString(r.metadata.experience_years) \o " years\n"
    \o "   skills: " \o join(", ", FirstN(r.metadata.key_skills, 10)) \o "\n"
    \o "   industries: " \o join(", ", FirstN(r.metadata.industries, 5)) \o "\n"

\* the positions of a result list that hold the first result of their document
FirstOfDocument(results) ==
    {i \in 1..Len(results) : \A j \in 1..(i - 1) : results[j].resume_id # results[i].resume_id}

\* the strings of parts[i] for the i in `keep`, in ascending order of i, joined
RECURSIVE Joined(_, _, _)
Joined(parts, keep, i) ==
    IF i > Len(parts) THEN ""
    ELSE (IF i \in keep THEN parts[i] ELSE "") \o Joined(parts, keep, i + 1)

\* C24: the context of a cross-document query is the overview title, one entry per
\* stored document in insertion order whatever the search returned, then the title
\* of the relevant sections and, of the results of search_resumes(query, 6), the
\* first chunk of each document in result order and no other chunk.
C24_CrossContext ==
    (op = "query" /\ trace.path = "cross" /\ trace.sent # <<>>)
        => LET results == SearchView(index, all_chunks, chunk_to_resume, arg.user_query, 6)
               entries == [i \in 1..Len(resumes) |-> OverviewEntry(resumes[i])]
               sections == [i \in 1..Len(results) |-> "\n" \o results[i].chunk \o "\n"]
           IN  trace.context
                 = "=== resume database overview ===\n"
                   \o Joined(entries, 1..Len(resumes), 1)
                   \o "\n=== relevant resume sections ===\n"
                   \o Joined(sections, FirstOfDocument(results), 1)

\* a cross-document query over two documents of two chunks each: four results, two
\* of them kept
C24_Witness ==
    /\ op = "query"
    /\ trace.path = "cross"
    /\ trace.sent # <<>>
    /\ Len(resumes) = 2
    /\ ~SearchIsEmpty(index)
    /\ Len(SearchView(index, all_chunks, chunk_to_resume, arg.user_query, 6)) = 4
    /\ Cardinality(FirstOfDocument(
            SearchView(index, all_chunks, chunk_to_resume, arg.user_query, 6))) = 2

\* the number of chunks stored in the documents before document d
ChunksBefore(rs, d) == SumOf([e \in 1..(d - 1) |-> Len(rs[e].chunks)])

\* C25: after every add_resume or remove_resume that returned, the chunk table is
\* the stored chunks of the first stored document, then those of the second, and so
\* on, and entry i of the chunk-to-document map is the id of the stored document
\* whose chunk stands at position i; and no result of search_resumes_with_metadata
\* is one of the 'Unknown' candidate, the branch for a chunk without a stored owner.
C25_ChunkTableOfStoredDocuments ==
    /\ (op \in {"add_resume", "remove_resume"} /\ ~raised)
        => /\ Len(all_chunks) = ChunksBefore(resumes, Len(resumes) + 1)
           /\ Len(chunk_to_resume) = Len(all_chunks)
           /\ \A d \in 1..Len(resumes) :
                \A j \in 1..Len(resumes[d].chunks) :
                    /\ all_chunks[ChunksBefore(resumes, d) + j] = resumes[d].chunks[j]
                    /\ chunk_to_resume[ChunksBefore(resumes, d) + j] = resumes[d].id
    /\ (op = "search_resumes_with_metadata" /\ ~raised)
        => \A i \in 1..Len(ret) : ret[i].candidate_name # "Unknown"

\* the first of two documents was removed: the two chunks left are the second's
C25_Witness ==
    /\ op = "remove_resume"
    /\ ~raised
    /\ ret = TRUE
    /\ Len(resumes) = 1
    /\ resumes[1].id = "a_b_pdf_1"
    /\ Len(all_chunks) = 2
    /\ chunk_to_resume = <<"a_b_pdf_1", "a_b_pdf_1">>

\* C26: a click on "Process Files" handles every file of the batch once, in order,
\* and ends with accepted + rejected equal to the number of files; the store holds
\* exactly `accepted` more documents than before, the documents it held before are
\* unchanged, and the new ones are, in order, the files reported as added: no file
\* that was rejected or that failed is in the store.
C26_BatchAccounting ==
    [][op' = "process_files"
        => LET files == arg'.files
               shown == ret'.shown
               added_files == SelectSeq([i \in 1..Len(files) |->
                                            [filename |-> files[i], kind |-> shown[i]]],
                                        LAMBDA f : f.kind = "Added")
               new == SubSeq(resumes', Len(resumes) + 1, Len(resumes'))
           IN  /\ Len(shown) = Len(files)
               /\ \A i \in 1..Len(shown) : shown[i] \in {"Added", "Rejected", "Failed"}
               /\ ret'.accepted + ret'.rejected = Len(files)
               /\ ret'.accepted = Len(added_files)
               /\ SubSeq(resumes', 1, Len(resumes)) = resumes
               /\ Len(resumes') = Len(resumes) + ret'.accepted
               /\ Len(new) = Len(added_files)
                    => \A i \in 1..Len(new) :
                            new[i].metadata.filename = added_files[i].filename]_vars

\* the extension of the filename is none of the three extract_text handles
Unsupported(filename) ==
    \A ext \in {".pdf", ".docx", ".txt"} : ~EndsWith(lower(filename), ext)

\* the file is a pdf or a docx by its name
Parsed(filename) == \E ext \in {".pdf", ".docx"} : EndsWith(lower(filename), ext)

\* C27: for a filename with an unsupported extension, and for a pdf or docx that no
\* parsing strategy can read, extract_text returns no text: it raises an error, and
\* the message of the error contains the filename.
C27_ExtractionErrorNamesFile ==
    (op = "extract_text"
        /\ (Unsupported(arg.filename) \/ (Parsed(arg.filename) /\ ~arg.readable)))
        => (raised /\ Contains(ret, arg.filename))

\* C28: an add_resume whose text extraction raises (an unsupported extension, or a
\* pdf or docx no parser can read) raises to its caller and changes nothing: the
\* records and so the ids in use, the chunk table, the chunk-to-document map, the
\* index and the conversation memory are as before the call.
C28_FailedExtractionChangesNothing ==
    [][(op' = "add_resume"
            /\ (Unsupported(arg'.filename) \/ (Parsed(arg'.filename) /\ ~arg'.readable)))
        => /\ raised'
           /\ resumes' = resumes
           /\ Ids(resumes') = Ids(resumes)
           /\ all_chunks' = all_chunks
           /\ chunk_to_resume' = chunk_to_resume
           /\ index' = index
           /\ messages' = messages
           /\ max_messages' = max_messages]_vars

\* an unreadable pdf handed to a manager that holds a document and a conversation
C28_Witness ==
    /\ op = "add_resume"
    /\ raised
    /\ arg.filename = "a b.pdf"
    /\ ~arg.readable
    /\ Len(resumes) = 1
    /\ all_chunks # <<>>
    /\ messages # <<>>

\* the windows over a section longer than chunk_size when the start moves on by
\* `step` from 0 for as long as it lies inside the section
SteppedWindows(section, chunk_size, step) ==
    [k \in 1..CeilDiv(Len(section), step) |->
        SubSeq(section, (k - 1) * step + 1, Min((k - 1) * step + chunk_size, Len(section)))]

\* C29: for 0 <= overlap < chunk_size, _chunk_text ends on every text with finitely
\* many chunks: a section longer than chunk_size gives the windows whose start moves
\* on by exactly chunk_size - overlap from 0 until it leaves the section; every chunk
\* is non-empty and at most chunk_size characters long, and every character of the
\* section lies in one of its windows.
C29_WindowsAdvanceAndCover ==
    (op = "_chunk_text")
        => LET secs == Sections(arg.text)
               step == arg.chunk_size - arg.overlap
               windows == [i \in 1..Len(secs) |->
                             IF Len(secs[i]) <= arg.chunk_size THEN <<secs[i]>>
                             ELSE SteppedWindows(secs[i], arg.chunk_size, step)]
           IN  /\ step >= 1
               /\ Len(ret) <= Len(arg.text)
               /\ \A c \in 1..Len(ret) : ret[c] # "" /\ Len(ret[c]) <= arg.chunk_size
               /\ Len(ret) = SumOf([i \in 1..Len(secs) |-> Len(windows[i])])
               /\ \A i \in 1..Len(secs) :
                    LET first == SumOf([e \in 1..(i - 1) |-> Len(windows[e])])
                        mine == SubSeq(ret, first + 1, first + Len(windows[i]))
                    IN  /\ mine = windows[i]
                        /\ \A p \in 1..Len(secs[i]) :
                             \E k \in 1..Len(mine) :
                                /\ (k - 1) * step < p
                                /\ p <= (k - 1) * step + Len(mine[k])
                                /\ CharAt(mine[k], p - (k - 1) * step) = CharAt(secs[i], p)

\* a section of five characters cut with chunk_size 3 and overlap 2: five windows,
\* the last of one character
C29_Witness ==
    /\ op = "_chunk_text"
    /\ arg.chunk_size = 3
    /\ arg.overlap = 2
    /\ Len(Sections(arg.text)) = 1
    /\ Len(ret) = 5
    /\ Len(ret[5]) = 1

\* user, assistant, user, assistant, ...: an even number of turns, a user turn first
Alternates(msgs) ==
    /\ Len(msgs) % 2 = 0
    /\ \A i \in 1..Len(msgs) : msgs[i].role = IF i % 2 = 1 THEN "user" ELSE "assistant"

\* C30: the memory of a manager with the default bound of 20, written only by query,
\* clear_conversation and clear_all_resumes, always holds an even number of turns
\* that alternate user, assistant from a user turn on; and a query whose completion
\* call fails, an add_resume and a remove_resume leave the memory as it was.
C30_MemoryAlternates ==
    [][/\ max_messages = 20
       /\ Alternates(messages)
       /\ Alternates(messages')
       /\ (\/ op' \in {"add_resume", "remove_resume"}
           \/ (op' = "query" /\ trace'.outcome = "raises"))
            => messages' = messages]_vars

\* the eleventh answered query of a conversation: the memory is at its bound, has
\* dropped its oldest pair and still starts with a user turn
C30_Witness ==
    /\ op = "query"
    /\ trace.outcome = "content"
    /\ Len(added) = 22
    /\ Len(messages) = 20
    /\ messages[1] = added[3]
    /\ messages[1].role = "user"

====
